---- MODULE Spec2Model ----
(***************************************************************************)
(* function-deletion-protection: the composition function that creates     *)
(* Usage / ClusterUsage objects for labelled resources (src/fn.go).        *)
(*                                                                         *)
(* Strings the code inspects or builds character by character (names,      *)
(* kinds, namespaces, map keys, label values) are sequences of one-letter  *)
(* strings, so that concatenation, strings.ToLower and strings.EqualFold   *)
(* are computed as the code computes them.  Strings the code only copies   *)
(* or compares as a whole (apiVersion, reasons, label keys, requirement    *)
(* names) are TLA+ strings.                                                *)
(***************************************************************************)
EXTENDS Integers, Sequences, FiniteSets, TLC

VARIABLES
    req,              \* the RunFunctionRequest and the function Input
    pc,               \* position of RunFunction
    desiredComposed,  \* the local map desiredComposed of RunFunction
    visitOrder,       \* keys the range loop over desiredComposed has produced, in order
    groupOrder,       \* order in which the range loop of ProtectRequiredResources produced the groups
    protectedCount,   \* the local counter protectedCount
    rsp,              \* the RunFunctionResponse
    call,             \* a direct call of ProtectResource: argument, argument after the call, result
    jsonErr,          \* names of the resources whose Usage encoding/json fails to convert
    synth,            \* direct calls of GenerateUsage made so far: arguments and result
    readErr,          \* the call of the function SDK that fails in this invocation, or NoFailure
    err               \* the error RunFunction returned, NotReturned before it returns

vars == <<req, pc, desiredComposed, visitOrder, groupOrder, protectedCount, rsp, call, jsonErr, synth,
          readErr, err>>

----------------------------------------------------------------------------
(* Bounds of the model.                                                    *)

\* largest number of keys in the request's desired (and observed) composed map
MaxComposed == 2
\* largest number of resources in one requirement group
MaxGroupLen == 2
\* largest number of direct calls of the Usage generators in one run
MaxCalls == 2

----------------------------------------------------------------------------
(* Strings.                                                                *)

UpperLetters == <<"A","B","C","D","E","F","G","H","I","J","K","L","M",
                  "N","O","P","Q","R","S","T","U","V","W","X","Y","Z">>
LowerLetters == <<"a","b","c","d","e","f","g","h","i","j","k","l","m",
                  "n","o","p","q","r","s","t","u","v","w","x","y","z">>

\* the lower-case letter of every upper-case letter
UpperToLower ==
    [c \in {UpperLetters[i] : i \in 1..Len(UpperLetters)} |->
        LowerLetters[CHOOSE i \in 1..Len(UpperLetters) : UpperLetters[i] = c]]

\* strings.ToLower on one character
ToLowerChar(c) == IF c \in DOMAIN UpperToLower THEN UpperToLower[c] ELSE c

\* strings.ToLower
ToLower(s) == [i \in 1..Len(s) |-> ToLowerChar(s[i])]

\* strings.EqualFold: equal under simple case folding
EqualFold(s, t) ==
    /\ Len(s) = Len(t)
    /\ \A i \in 1..Len(s) : ToLowerChar(s[i]) = ToLowerChar(t[i])

EmptyString == << >>
Dash == <<"-">>
StrTrue == <<"t","r","u","e">>

----------------------------------------------------------------------------
(* time.ParseDuration on the durations the model draws: groups of decimal  *)
(* digits followed by one of the units ms, s, m, h; the value is counted   *)
(* in milliseconds.  Signs, fractions and the units below a millisecond    *)
(* are not among the inputs.                                               *)

DigitValue ==
    [c \in {"0","1","2","3","4","5","6","7","8","9"} |->
        CASE c = "0" -> 0 [] c = "1" -> 1 [] c = "2" -> 2 [] c = "3" -> 3 [] c = "4" -> 4
          [] c = "5" -> 5 [] c = "6" -> 6 [] c = "7" -> 7 [] c = "8" -> 8 [] c = "9" -> 9]

IsDigit(c) == c \in DOMAIN DigitValue

\* the milliseconds of a unit
UnitMillis ==
    [u \in {<<"m","s">>, <<"s">>, <<"m">>, <<"h">>} |->
        CASE u = <<"m","s">> -> 1 [] u = <<"s">> -> 1000 [] u = <<"m">> -> 60000 [] u = <<"h">> -> 3600000]

\* the first position from i on that holds no digit
RECURSIVE DigitsEnd(_, _)
DigitsEnd(s, i) == IF i <= Len(s) /\ IsDigit(s[i]) THEN DigitsEnd(s, i + 1) ELSE i

\* the first position from i on that holds a digit
RECURSIVE UnitEnd(_, _)
UnitEnd(s, i) == IF i <= Len(s) /\ ~IsDigit(s[i]) THEN UnitEnd(s, i + 1) ELSE i

\* the number written by the digits d
RECURSIVE NumberOf(_)
NumberOf(d) == IF d = << >> THEN 0 ELSE 10 * NumberOf(SubSeq(d, 1, Len(d) - 1)) + DigitValue[d[Len(d)]]

\* the groups of s from position i on, added to total
RECURSIVE ParseGroups(_, _, _)
ParseGroups(s, i, total) ==
    IF i > Len(s)
    THEN [err |-> FALSE, dur |-> total]
    ELSE LET j == DigitsEnd(s, i)
             k == UnitEnd(s, j)
         IN  IF j = i                                    \* no digits: invalid duration
             THEN [err |-> TRUE, dur |-> 0]
             ELSE IF k = j                               \* missing unit
             THEN [err |-> TRUE, dur |-> 0]
             ELSE IF SubSeq(s, j, k - 1) \notin DOMAIN UnitMillis   \* unknown unit
             THEN [err |-> TRUE, dur |-> 0]
             ELSE ParseGroups(s, k, total + NumberOf(SubSeq(s, i, j - 1)) * UnitMillis[SubSeq(s, j, k - 1)])

\* time.ParseDuration
ParseDuration(s) ==
    IF s = <<"0">> THEN [err |-> FALSE, dur |-> 0]
    ELSE IF s = << >> THEN [err |-> TRUE, dur |-> 0]
    ELSE ParseGroups(s, 1, 0)

\* response.DefaultTTL, one minute, in milliseconds
DefaultTTL == 60000

----------------------------------------------------------------------------
(* Program constants (src/fn.go:214-227).                                  *)

ProtectionLabelBlockDeletion == "protection.fn.crossplane.io/block-deletion"
ProtectionGroupVersion == "protection.crossplane.io/v1beta1"
ProtectionV1GroupVersion == "apiextensions.crossplane.io/v1beta1"
ProtectionReason == "created by function-deletion-protection "
ProtectionReasonLabel == ProtectionReason \o "via label " \o ProtectionLabelBlockDeletion
ProtectionReasonCompositeChildResource == ProtectionReason \o "because a composed resource is protected"
ProtectionReasonOperation == ProtectionReason \o "by an Operation"
ProtectionReasonWatchOperation == ProtectionReason \o "by a WatchOperation"
UsageNameSuffix == <<"f","n","-","p","r","o","t","e","c","t","i","o","n">>
RequirementsNameWatchedResource == "ops.crossplane.io/watched-resource"
\* kinds of the two Usage APIs
ClusterUsageKind == <<"C","l","u","s","t","e","r","U","s","a","g","e">>
UsageKind == <<"U","s","a","g","e">>
V1UsageKind == <<"U","s","a","g","e">>

\* the literal pieces of the output keys
UsageKeySuffix == <<"-","u","s","a","g","e">>
XRKeyPrefix == <<"x","r","-">>
RequiredKeySuffix == <<"-","r","e","q","u","i","r","e","d","-","r","e","s","o","u","r","c","e",
                       "-","f","n","-","p","r","o","t","e","c","t","i","o","n">>

----------------------------------------------------------------------------
(* Unstructured objects: maps from field names to values.                  *)

EmptyMap == [k \in {} |-> k]

\* a nil *unstructured.Unstructured, and one whose Object is nil
NilPointer == [nilPointer |-> TRUE]
NilObject == [nilObject |-> TRUE]

MapPut(m, k, v) == [x \in (DOMAIN m) \cup {k} |-> IF x = k THEN v ELSE m[x]]

\* maps.Copy(dst, src)
MapsCopy(dst, src) ==
    [x \in (DOMAIN dst) \cup (DOMAIN src) |-> IF x \in DOMAIN src THEN src[x] ELSE dst[x]]

HasMeta(u, f) == "metadata" \in DOMAIN u /\ f \in DOMAIN u.metadata

GetLabels(u) == IF HasMeta(u, "labels") THEN u.metadata.labels ELSE EmptyMap
GetName(u) == IF HasMeta(u, "name") THEN u.metadata.name ELSE EmptyString
GetNamespace(u) == IF HasMeta(u, "namespace") THEN u.metadata.namespace ELSE EmptyString
GetKind(u) == IF "kind" \in DOMAIN u THEN u.kind ELSE EmptyString
GetAPIVersion(u) == IF "apiVersion" \in DOMAIN u THEN u.apiVersion ELSE ""

----------------------------------------------------------------------------
(* The pure functions of fn.go.                                            *)

\* ProtectResource with an exact comparison instead of strings.EqualFold
ProtectResourceExact(u) ==
    IF u = NilPointer \/ u = NilObject
    THEN FALSE
    ELSE LET labels == GetLabels(u)
         IN  /\ ProtectionLabelBlockDeletion \in DOMAIN labels
             /\ labels[ProtectionLabelBlockDeletion] = StrTrue

\* ProtectResource determines if a Resource requires deletion protection.
ProtectResource(u) ==
    IF u = NilPointer \/ u = NilObject
    THEN FALSE
    ELSE LET labels == GetLabels(u)
         IN  /\ ProtectionLabelBlockDeletion \in DOMAIN labels
             /\ EqualFold(labels[ProtectionLabelBlockDeletion], StrTrue)

\* GenerateName(name, suffix): name + "-" + a six character digest of name +
\* "-" + suffix.  The digest is kept as the string it is computed from, so
\* two names are equal exactly when their digests' inputs are.
GenerateName(name, suffix) == [prefix |-> name, digestOf |-> name, suffix |-> suffix]

\* UsageOf whose resourceRef also carries the namespace of the resource
UsageOfNamespaced(u) ==
    [apiVersion |-> GetAPIVersion(u), kind |-> GetKind(u),
     resourceRef |-> IF GetNamespace(u) # EmptyString
                     THEN [name |-> GetName(u), namespace |-> GetNamespace(u)]
                     ELSE [name |-> GetName(u)]]

\* the "of" part of a Usage spec
UsageOf(u) ==
    [apiVersion |-> GetAPIVersion(u), kind |-> GetKind(u), resourceRef |-> [name |-> GetName(u)]]

\* GenerateV2Usage that always makes a cluster-scoped Usage
GenerateV2UsageClusterOnly(u, reason) ==
    [apiVersion |-> ProtectionGroupVersion,
     kind |-> ClusterUsageKind,
     metadata |-> [name |-> GenerateName(ToLower(GetKind(u) \o Dash \o GetName(u)), UsageNameSuffix)],
     spec |-> [of |-> UsageOf(u), reason |-> reason]]

\* GenerateV2Usage that names the Usage after kind, name and namespace
GenerateV2UsageNamespacedName(u, reason) ==
    LET name == ToLower(GetKind(u) \o Dash \o GetName(u) \o Dash \o GetNamespace(u))
        namespace == GetNamespace(u)
    IN  [apiVersion |-> ProtectionGroupVersion,
         kind |-> IF namespace # EmptyString THEN UsageKind ELSE ClusterUsageKind,
         metadata |-> IF namespace # EmptyString
                      THEN [name |-> GenerateName(name, UsageNameSuffix), namespace |-> namespace]
                      ELSE [name |-> GenerateName(name, UsageNameSuffix)],
         spec |-> [of |-> UsageOf(u), reason |-> reason]]

\* GenerateV2Usage creates a v2 Usage for a resource.
GenerateV2Usage(u, reason) ==
    LET name == ToLower(GetKind(u) \o Dash \o GetName(u))
        namespace == GetNamespace(u)
    IN  [apiVersion |-> ProtectionGroupVersion,
         kind |-> IF namespace # EmptyString THEN UsageKind ELSE ClusterUsageKind,
         metadata |-> IF namespace # EmptyString
                      THEN [name |-> GenerateName(name, UsageNameSuffix), namespace |-> namespace]
                      ELSE [name |-> GenerateName(name, UsageNameSuffix)],
         spec |-> [of |-> UsageOf(u), reason |-> reason]]

\* GenerateV1Usage that names the Usage after the name of the resource alone
GenerateV1UsageNameOnly(u, reason) ==
    [apiVersion |-> ProtectionV1GroupVersion,
     kind |-> V1UsageKind,
     metadata |-> [name |-> GenerateName(ToLower(GetName(u)), UsageNameSuffix)],
     spec |-> [of |-> UsageOf(u), reason |-> reason]]

\* GenerateV1Usage with the label reason whatever the reason passed
GenerateV1UsageLabelReason(u, reason) ==
    [apiVersion |-> ProtectionV1GroupVersion,
     kind |-> V1UsageKind,
     metadata |-> [name |-> GenerateName(ToLower(GetKind(u) \o Dash \o GetName(u)), UsageNameSuffix)],
     spec |-> [of |-> UsageOf(u), reason |-> ProtectionReasonLabel]]

\* GenerateV1Usage that puts a namespaced resource's Usage into its namespace
GenerateV1UsageNamespaced(u, reason) ==
    LET name == ToLower(GetKind(u) \o Dash \o GetName(u))
        namespace == GetNamespace(u)
    IN  [apiVersion |-> ProtectionV1GroupVersion,
         kind |-> V1UsageKind,
         metadata |-> IF namespace # EmptyString
                      THEN [name |-> GenerateName(name, UsageNameSuffix), namespace |-> namespace]
                      ELSE [name |-> GenerateName(name, UsageNameSuffix)],
         spec |-> [of |-> UsageOf(u), reason |-> reason]]

\* GenerateV1Usage creates a Crossplane v1 Usage for a resource.
GenerateV1Usage(u, reason) ==
    LET name == ToLower(GetKind(u) \o Dash \o GetName(u))
    IN  [apiVersion |-> ProtectionV1GroupVersion,
         kind |-> V1UsageKind,
         metadata |-> [name |-> GenerateName(name, UsageNameSuffix)],
         spec |-> [of |-> UsageOf(u), reason |-> reason]]

\* GenerateUsage determines whether to return a v1 or v2 Crossplane usage.
GenerateUsage(u, reason, createV1Usages) ==
    IF createV1Usages THEN GenerateV1Usage(u, reason) ELSE GenerateV2Usage(u, reason)

\* convertViaJSON(to, from) into a composed.Unstructured: the JSON round trip
\* keeps the string fields; unmarshalling fails when the document has no
\* kind, and for the Usages encoding/json returns an error for (jsonErr; no
\* Usage the generators build makes it fail, so jsonErr is empty except where
\* the handling of the error is examined).
convertViaJSON(from) ==
    IF GetKind(from) = EmptyString \/ from.spec.of.resourceRef.name \in jsonErr
    THEN [err |-> TRUE, to |-> EmptyMap]
    ELSE [err |-> FALSE, to |-> from]

\* the key ProtectRequiredResources stores a required resource's Usage under
RequiredKey(r) ==
    GetKind(r) \o Dash \o GetName(r) \o Dash \o GetNamespace(r) \o RequiredKeySuffix

\* the inner loop of ProtectRequiredResources over v[i..], one requirement group
RECURSIVE ProtectGroup(_, _, _, _)
ProtectGroup(dc, resourceName, v, i) ==
    IF i > Len(v)
    THEN [err |-> FALSE, dc |-> dc]
    ELSE LET r == v[i]
         IN  IF resourceName = RequirementsNameWatchedResource \/ ProtectResource(r)
             THEN LET reason == IF resourceName = RequirementsNameWatchedResource
                                THEN ProtectionReasonWatchOperation
                                ELSE ProtectionReasonOperation
                      conv == convertViaJSON(GenerateV2Usage(r, reason))
                  IN  IF conv.err
                      THEN [err |-> TRUE, dc |-> dc]
                      ELSE ProtectGroup(MapPut(dc, RequiredKey(r), conv.to), resourceName, v, i + 1)
             ELSE ProtectGroup(dc, resourceName, v, i + 1)

\* the outer loop over the requirement groups, in the order the map range produces them
RECURSIVE ProtectGroups(_, _, _, _)
ProtectGroups(dc, rr, order, j) ==
    IF j > Len(order)
    THEN [err |-> FALSE, dc |-> dc]
    ELSE LET one == ProtectGroup(dc, order[j], rr[order[j]], 1)
         IN  IF one.err THEN one ELSE ProtectGroups(one.dc, rr, order, j + 1)

\* ProtectRequiredResources creates usages for Required Resources.
ProtectRequiredResources(rr, order) == ProtectGroups(EmptyMap, rr, order, 1)

\* the orders in which a range over a map with these keys can produce them
RangeOrders(keys) ==
    {o \in [1..Cardinality(keys) -> keys] : \A i, j \in 1..Cardinality(keys) : i # j => o[i] # o[j]}

----------------------------------------------------------------------------
(* The requests the model runs the function on.                            *)

\* an unstructured object; an empty namespace or an absent label is left out
Object(apiVersion, kind, name, namespace, label) ==
    LET n == [name |-> name]
        ns == IF namespace = EmptyString THEN n ELSE MapsCopy(n, [namespace |-> namespace])
        meta == IF label = EmptyString THEN ns
                ELSE MapsCopy(ns, [labels |-> [k \in {ProtectionLabelBlockDeletion} |-> label]])
    IN  [apiVersion |-> apiVersion, kind |-> kind, metadata |-> meta]

\* label values
LabelTrue == <<"T","r","u","e">>
LabelFalse == <<"f","a","l","s","e">>
NoLabel == EmptyString

NamespaceN == <<"n">>
KindK == <<"K">>
KindXR == <<"X","R">>
NameA == <<"a">>
NameB == <<"B">>

\* keys of the composed maps: "a", "a-usage" and "xr-b"
KeyA == <<"a">>
KeyAUsage == KeyA \o UsageKeySuffix
KeyXRB == XRKeyPrefix \o <<"b">>
ComposedKeys == {KeyA, KeyAUsage, KeyXRB}

\* the resource composed under a key: K/<key> in the API group v1, and under
\* "xr-b" K/a in the API group v2 (the kind and name of the resource under "a")
ComposedObject(k, namespace, label) ==
    IF k = KeyXRB
    THEN Object("v2", KindK, NameA, namespace, label)
    ELSE Object("v1", KindK, k, namespace, label)

\* the desired copies: with or without the label ("xr-b": with it)
DesiredChoices(k) ==
    {ComposedObject(k, EmptyString, l) :
        l \in IF k = KeyXRB THEN {LabelTrue} ELSE {NoLabel, LabelTrue}}

\* the observed copies: labelled "false" or "True" ("xr-b": "false"), and
\* under the key "a" also a namespaced one
ObservedChoices(k) ==
    {ComposedObject(k, EmptyString, l) :
        l \in IF k = KeyXRB THEN {LabelFalse} ELSE {LabelFalse, LabelTrue}}
    \cup (IF k = KeyA
          THEN {ComposedObject(k, NamespaceN, NoLabel)}
          ELSE {})

KeySets == {S \in SUBSET ComposedKeys : Cardinality(S) <= MaxComposed}

DesiredComposedMaps ==
    UNION {{m \in [S -> UNION {DesiredChoices(k) : k \in S}] : \A k \in S : m[k] \in DesiredChoices(k)}
           : S \in KeySets}

ObservedComposedMaps ==
    UNION {{m \in [S -> UNION {ObservedChoices(k) : k \in S}] : \A k \in S : m[k] \in ObservedChoices(k)}
           : S \in KeySets}

\* the composite: the desired copy, of which only the label is read, and the
\* observed copy, not yet observed (an empty object) or on the cluster
XR(namespace, label) == Object("v1", KindXR, NameB, namespace, label)
Composites ==
    {[desired |-> XR(EmptyString, NoLabel), observed |-> o] :
        o \in {EmptyMap, XR(EmptyString, NoLabel), XR(EmptyString, LabelTrue), XR(NamespaceN, LabelFalse)}}
    \cup
    {[desired |-> XR(EmptyString, LabelTrue), observed |-> o] :
        o \in {EmptyMap, XR(NamespaceN, NoLabel), XR(EmptyString, LabelTrue)}}

\* required resources: each has its own labels; RequiredTL and RequiredU have
\* the same kind, name and namespace in two API groups
NameC == <<"c">>
RequiredT == Object("v1", KindK, NameC, EmptyString, NoLabel)
RequiredTL == Object("v1", KindK, NameA, EmptyString, LabelTrue)
RequiredN == Object("v1", KindK, NameA, NamespaceN, LabelFalse)
RequiredU == Object("v2", KindK, NameA, EmptyString, LabelTrue)
RequiredResources == {RequiredT, RequiredTL, RequiredN, RequiredU}

OtherRequirement == "other-requirement"
RequirementNames == {RequirementsNameWatchedResource, OtherRequirement}

\* the required resources of the requests of a composition pipeline
PipelineRequired ==
    {EmptyMap,
     [g \in RequirementNames |->
        IF g = RequirementsNameWatchedResource THEN <<RequiredN>> ELSE <<RequiredTL, RequiredT>>]}

Requests ==
    {[input |-> [enableV1Mode |-> v1, cacheTTL |-> EmptyString],
      desiredComposite |-> xr.desired,
      observedComposite |-> xr.observed,
      desiredComposed |-> dc,
      observedComposed |-> oc,
      requiredResources |-> rr] :
        v1 \in BOOLEAN, xr \in Composites,
        dc \in DesiredComposedMaps, oc \in ObservedComposedMaps, rr \in PipelineRequired}

NoCall == [u |-> NilPointer, after |-> NilPointer, ret |-> FALSE, done |-> FALSE]
\* no response yet
EmptyResponse == [results |-> << >>, desired |-> EmptyMap, ttl |-> 0]

----------------------------------------------------------------------------
(* RunFunction, one step at a time.                                        *)

Range(q) == {q[i] : i \in 1..Len(q)}

\* response.To(req, ttl): it copies the desired state of the request
ResponseTo(r, ttl) == [results |-> << >>, desired |-> r.desiredComposed, ttl |-> ttl]

\* response.Fatal(rsp, err); return rsp, nil
Fatal(r, message) ==
    [r EXCEPT !.results = Append(@, [severity |-> "fatal", target |-> "composite", message |-> message])]

\* ReadInput that reports a malformed cacheTTL and goes on
ReadInputNoReturn(r, in) ==
    IF in.cacheTTL # EmptyString
    THEN LET d == ParseDuration(in.cacheTTL)
         IN  IF d.err
             THEN [err |-> FALSE, rsp |-> Fatal(r, "cannot set cacheTTL")]
             ELSE [err |-> FALSE, rsp |-> [r EXCEPT !.ttl = d.dur]]
    ELSE [err |-> FALSE, rsp |-> r]

\* ReadInput that parses the cacheTTL and leaves the TTL of the response
ReadInputKeepTTL(r, in) ==
    IF in.cacheTTL # EmptyString
    THEN LET d == ParseDuration(in.cacheTTL)
         IN  IF d.err
             THEN [err |-> TRUE, rsp |-> Fatal(r, "cannot set cacheTTL")]
             ELSE [err |-> FALSE, rsp |-> r]
    ELSE [err |-> FALSE, rsp |-> r]

\* the input: a cacheTTL sets the TTL of the response
ReadInput(r, in) ==
    IF in.cacheTTL # EmptyString
    THEN LET d == ParseDuration(in.cacheTTL)
         IN  IF d.err
             THEN [err |-> TRUE, rsp |-> Fatal(r, "cannot set cacheTTL")]
             ELSE [err |-> FALSE, rsp |-> [r EXCEPT !.ttl = d.dur]]
    ELSE [err |-> FALSE, rsp |-> r]

\* ComposedBody without the requirement that the key has been observed
ComposedBodyDesiredOnly(dc, count, name, observedComposed, v1) ==
    LET target == IF name \in DOMAIN observedComposed THEN observedComposed[name] ELSE dc[name]
    IN  IF ProtectResource(dc[name]) \/ ProtectResource(target)
        THEN [err |-> FALSE,
              dc |-> MapPut(dc, name \o UsageKeySuffix,
                            GenerateUsage(target, ProtectionReasonLabel, v1)),
              count |-> count + 1]
        ELSE [err |-> FALSE, dc |-> dc, count |-> count]

\* ComposedBody that counts the label of the desired and of the observed copy
ComposedBodyCountBoth(dc, count, name, observedComposed, v1) ==
    IF name \in DOMAIN observedComposed
    THEN IF ProtectResource(dc[name]) \/ ProtectResource(observedComposed[name])
         THEN LET conv == convertViaJSON(GenerateUsage(observedComposed[name], ProtectionReasonLabel, v1))
              IN  IF conv.err
                  THEN [err |-> TRUE, dc |-> dc, count |-> count]
                  ELSE [err |-> FALSE,
                        dc |-> MapPut(dc, name \o UsageKeySuffix, conv.to),
                        count |-> count + (IF ProtectResource(dc[name]) THEN 1 ELSE 0)
                                        + (IF ProtectResource(observedComposed[name]) THEN 1 ELSE 0)]
         ELSE [err |-> FALSE, dc |-> dc, count |-> count]
    ELSE [err |-> FALSE, dc |-> dc, count |-> count]

\* the body of the range loop over desiredComposed for the key name
ComposedBody(dc, count, name, observedComposed, v1) ==
    IF name \in DOMAIN observedComposed
    THEN IF ProtectResource(dc[name]) \/ ProtectResource(observedComposed[name])
         THEN LET conv == convertViaJSON(GenerateUsage(observedComposed[name], ProtectionReasonLabel, v1))
              IN  IF conv.err
                  THEN [err |-> TRUE, dc |-> dc, count |-> count]
                  ELSE [err |-> FALSE,
                        dc |-> MapPut(dc, name \o UsageKeySuffix, conv.to),
                        count |-> count + 1]
         ELSE [err |-> FALSE, dc |-> dc, count |-> count]
    ELSE [err |-> FALSE, dc |-> dc, count |-> count]

\* the key the composite's Usage is stored under
CompositeKey(observedComposite) ==
    ToLower(XRKeyPrefix \o GetName(observedComposite) \o UsageKeySuffix)

\* CompositeBody with the reason chosen by the composite's own label first
CompositeBodyLabelFirst(dc, count, desiredComposite, observedComposite, v1) ==
    IF ProtectResource(observedComposite) \/ ProtectResource(desiredComposite) \/ count > 0
    THEN LET reason == IF ProtectResource(observedComposite) \/ ProtectResource(desiredComposite)
                       THEN ProtectionReasonLabel
                       ELSE ProtectionReasonCompositeChildResource
             conv == convertViaJSON(GenerateUsage(observedComposite, reason, v1))
         IN  IF conv.err
             THEN [err |-> TRUE, dc |-> dc, count |-> count]
             ELSE [err |-> FALSE,
                   dc |-> MapPut(dc, ToLower(XRKeyPrefix \o GetName(observedComposite) \o UsageKeySuffix),
                                 conv.to),
                   count |-> count + 1]
    ELSE [err |-> FALSE, dc |-> dc, count |-> count]

\* CompositeBody with the Usage generated from the desired composite
CompositeBodyFromDesired(dc, count, desiredComposite, observedComposite, v1) ==
    IF ProtectResource(observedComposite) \/ ProtectResource(desiredComposite) \/ count > 0
    THEN LET reason == IF count > 0 THEN ProtectionReasonCompositeChildResource
                       ELSE ProtectionReasonLabel
             conv == convertViaJSON(GenerateUsage(desiredComposite, reason, v1))
         IN  IF conv.err
             THEN [err |-> TRUE, dc |-> dc, count |-> count]
             ELSE [err |-> FALSE,
                   dc |-> MapPut(dc, ToLower(XRKeyPrefix \o GetName(observedComposite) \o UsageKeySuffix),
                                 conv.to),
                   count |-> count + 1]
    ELSE [err |-> FALSE, dc |-> dc, count |-> count]

\* the step that creates a Usage on the Composite
CompositeBody(dc, count, desiredComposite, observedComposite, v1) ==
    IF ProtectResource(observedComposite) \/ ProtectResource(desiredComposite) \/ count > 0
    THEN LET reason == IF count > 0 THEN ProtectionReasonCompositeChildResource
                       ELSE ProtectionReasonLabel
             conv == convertViaJSON(GenerateUsage(observedComposite, reason, v1))
         IN  IF conv.err
             THEN [err |-> TRUE, dc |-> dc, count |-> count]
             ELSE [err |-> FALSE,
                   dc |-> MapPut(dc, CompositeKey(observedComposite), conv.to),
                   count |-> count + 1]
    ELSE [err |-> FALSE, dc |-> dc, count |-> count]

\* the step that protects the required resources that are present
RequiredBody(dc, count, requiredResources, order) ==
    IF Cardinality(DOMAIN requiredResources) > 0
    THEN LET rr == ProtectRequiredResources(requiredResources, order)
         IN  IF rr.err
             THEN [err |-> TRUE, dc |-> dc, count |-> count]
             ELSE [err |-> FALSE,
                   dc |-> MapsCopy(dc, rr.dc),
                   count |-> count + Cardinality(DOMAIN rr.dc)]
    ELSE [err |-> FALSE, dc |-> dc, count |-> count]

\* no call of the function SDK fails
NoFailure == "none"

\* RunFunction has not returned; it has returned the nil error
NotReturned == "not returned"
NilError == "nil"

\* the reads of the request that follow the input, with the message of the
\* fatal result each one ends in
ReadMessage ==
    [GetDesiredCompositeResource |-> "cannot get desired composite",
     GetObservedCompositeResource |-> "cannot get observed composite",
     GetObservedComposedResources |-> "cannot get observed resources",
     GetDesiredComposedResources |-> "cannot get desired composed resources"]

\* the calls of the function SDK made after the passes have begun
LateReads == {"GetRequiredResources", "SetDesiredComposedResources"}

\* the input and the four reads of the request, in the order of the code;
\* the first one that fails ends the invocation
ReadRequest(r, request, failing) ==
    IF failing = "GetInput"
    THEN [err |-> TRUE, rsp |-> Fatal(r, "cannot get Function input")]
    ELSE LET in == ReadInput(r, request.input)
         IN  IF in.err
             THEN in
             ELSE IF failing \in DOMAIN ReadMessage
                  THEN [err |-> TRUE, rsp |-> Fatal(in.rsp, ReadMessage[failing])]
                  ELSE in

\* Continue that still sets the desired resources when a step failed
ContinueKeepPartial(out, next) ==
    IF out.err
    THEN /\ pc' = "done"
         /\ rsp' = [Fatal(rsp, "cannot convert usage to unstructured") EXCEPT !.desired = out.dc]
         /\ err' = NilError
         /\ UNCHANGED <<desiredComposed, protectedCount>>
    ELSE /\ pc' = next
         /\ desiredComposed' = out.dc
         /\ protectedCount' = out.count
         /\ UNCHANGED <<rsp, err>>

\* Continue that returns the error of the step to the caller
ContinueReturnErr(out, next) ==
    IF out.err
    THEN /\ pc' = "done"
         /\ err' = "cannot convert usage to unstructured"
         /\ UNCHANGED <<desiredComposed, protectedCount, rsp>>
    ELSE /\ pc' = next
         /\ desiredComposed' = out.dc
         /\ protectedCount' = out.count
         /\ UNCHANGED <<rsp, err>>

\* after a step: go on at the position next, or return the fatal response
Continue(out, next) ==
    IF out.err
    THEN /\ pc' = "done"
         /\ rsp' = Fatal(rsp, IF next = "set" THEN "cannot process required resources"
                                ELSE "cannot convert usage to unstructured")
         /\ err' = NilError
         /\ UNCHANGED <<desiredComposed, protectedCount>>
    ELSE /\ pc' = next
         /\ desiredComposed' = out.dc
         /\ protectedCount' = out.count
         /\ UNCHANGED <<rsp, err>>

\* reading the input and the resources of the request
Start ==
    /\ pc = "start"
    /\ LET in == ReadRequest(ResponseTo(req, DefaultTTL), req, readErr)
       IN  /\ rsp' = in.rsp
           /\ IF in.err
              THEN /\ pc' = "done"
                   /\ err' = NilError
                   /\ UNCHANGED <<desiredComposed, protectedCount>>
              ELSE /\ pc' = "composed"
                   /\ desiredComposed' = req.desiredComposed
                   /\ protectedCount' = 0
                   /\ UNCHANGED err
    /\ UNCHANGED <<req, visitOrder, groupOrder, call, jsonErr, synth, readErr>>

\* one iteration of the range loop: a key of the map the loop has not produced
ComposedVisit ==
    /\ pc = "composed"
    /\ \E name \in (DOMAIN desiredComposed) \ Range(visitOrder) :
          /\ visitOrder' = Append(visitOrder, name)
          /\ Continue(ComposedBody(desiredComposed, protectedCount, name,
                                   req.observedComposed, req.input.enableV1Mode), "composed")
    /\ UNCHANGED <<req, groupOrder, call, jsonErr, synth, readErr>>

\* a range loop that ends only over a map that did not grow under it
ComposedDoneUnchangedMap ==
    /\ pc = "composed"
    /\ DOMAIN req.desiredComposed \subseteq Range(visitOrder)
    /\ DOMAIN desiredComposed = DOMAIN req.desiredComposed
    /\ pc' = "composite"
    /\ UNCHANGED <<req, desiredComposed, visitOrder, groupOrder, protectedCount, rsp, call, jsonErr, synth,
                   readErr, err>>

\* the range loop left before it has produced every key of the map
ComposedDoneEarly ==
    /\ pc = "composed"
    /\ pc' = "composite"
    /\ UNCHANGED <<req, desiredComposed, visitOrder, groupOrder, protectedCount, rsp, call, jsonErr, synth,
                   readErr, err>>

\* the range loop ends: it has produced every key the map had when it began;
\* a key inserted during the loop may have been produced or skipped
ComposedDone ==
    /\ pc = "composed"
    /\ DOMAIN req.desiredComposed \subseteq Range(visitOrder)
    /\ pc' = "composite"
    /\ UNCHANGED <<req, desiredComposed, visitOrder, groupOrder, protectedCount, rsp, call, jsonErr, synth,
                   readErr, err>>

CompositeStep ==
    /\ pc = "composite"
    /\ Continue(CompositeBody(desiredComposed, protectedCount, req.desiredComposite,
                              req.observedComposite, req.input.enableV1Mode), "required")
    /\ UNCHANGED <<req, visitOrder, groupOrder, call, jsonErr, synth, readErr>>

RequiredStep ==
    /\ pc = "required"
    /\ IF readErr = "GetRequiredResources"
       THEN /\ pc' = "done"
            /\ rsp' = Fatal(rsp, "cannot get required resources")
            /\ err' = NilError
            /\ UNCHANGED <<desiredComposed, protectedCount, groupOrder>>
       ELSE \E order \in RangeOrders(DOMAIN req.requiredResources) :
               /\ groupOrder' = order
               /\ Continue(RequiredBody(desiredComposed, protectedCount, req.requiredResources, order),
                           "set")
    /\ UNCHANGED <<req, visitOrder, call, jsonErr, synth, readErr>>

\* response.SetDesiredComposedResources and the return
SetDesired ==
    /\ pc = "set"
    /\ rsp' = IF readErr = "SetDesiredComposedResources"
              THEN Fatal(rsp, "cannot set desired resources")
              ELSE [rsp EXCEPT !.desired = desiredComposed]
    /\ pc' = "done"
    /\ err' = NilError
    /\ UNCHANGED <<req, desiredComposed, visitOrder, groupOrder, protectedCount, call, jsonErr, synth,
                   readErr>>

Init ==
    /\ req \in Requests
    /\ pc = "start"
    /\ desiredComposed = EmptyMap
    /\ visitOrder = << >>
    /\ groupOrder = << >>
    /\ protectedCount = 0
    /\ rsp = EmptyResponse
    /\ call = NoCall
    /\ jsonErr = {}
    /\ readErr = NoFailure
    /\ err = NotReturned
    /\ synth = << >>

Next ==
    \/ Start
    \/ ComposedVisit
    \/ ComposedDone
    \/ CompositeStep
    \/ RequiredStep
    \/ SetDesired

Spec == Init /\ [][Next]_vars

----------------------------------------------------------------------------
(* RunFunction invoked by an Operation: no composite, no composed          *)
(* resources, only required resources.                                     *)

SeqsUpTo(S, n) == UNION {[1..m -> S] : m \in 0..n}

OperationRequired ==
    UNION {[G -> SeqsUpTo(RequiredResources, MaxGroupLen)] : G \in SUBSET RequirementNames}

OperationRequests ==
    {[input |-> [enableV1Mode |-> v1, cacheTTL |-> EmptyString],
      desiredComposite |-> EmptyMap,
      observedComposite |-> EmptyMap,
      desiredComposed |-> EmptyMap,
      observedComposed |-> EmptyMap,
      requiredResources |-> rr] :
        v1 \in BOOLEAN, rr \in OperationRequired}

InitOperation ==
    /\ req \in OperationRequests
    /\ pc = "start"
    /\ desiredComposed = EmptyMap
    /\ visitOrder = << >>
    /\ groupOrder = << >>
    /\ protectedCount = 0
    /\ rsp = EmptyResponse
    /\ call = NoCall
    /\ jsonErr = {}
    /\ readErr = NoFailure
    /\ err = NotReturned
    /\ synth = << >>

NextOperation ==
    \/ Start
    \/ ComposedDone
    \/ CompositeStep
    \/ RequiredStep
    \/ SetDesired

SpecOperation == InitOperation /\ [][NextOperation]_vars

----------------------------------------------------------------------------
(* RunFunction with a cacheTTL in its input.                               *)

\* cacheTTL values that are durations, with their length in milliseconds
ValidTTL ==
    [t \in {<<"5","m">>, <<"9","0","s">>, <<"1","m","3","0","s">>, <<"1","h">>,
             <<"5","0","0","m","s">>, <<"0">>} |->
        CASE t = <<"5","m">> -> 300000
          [] t = <<"9","0","s">> -> 90000
          [] t = <<"1","m","3","0","s">> -> 90000
          [] t = <<"1","h">> -> 3600000
          [] t = <<"5","0","0","m","s">> -> 500
          [] t = <<"0">> -> 0]

\* cacheTTL values that are not: unknown unit, missing unit, no number
InvalidTTLs == {<<"5","x">>, <<"5">>, <<"m">>, <<"1","m","3">>}

TTLInputs == {EmptyString} \cup (DOMAIN ValidTTL) \cup InvalidTTLs

TTLRequests ==
    {[input |-> [enableV1Mode |-> v1, cacheTTL |-> ttl],
      desiredComposite |-> XR(EmptyString, l),
      observedComposite |-> XR(EmptyString, l),
      desiredComposed |-> dc,
      observedComposed |-> oc,
      requiredResources |-> rr] :
        v1 \in BOOLEAN, ttl \in TTLInputs, l \in {NoLabel, LabelTrue},
        dc \in {EmptyMap, [k \in {KeyA} |-> ComposedObject(KeyA, EmptyString, LabelTrue)]},
        oc \in {EmptyMap, [k \in {KeyA} |-> ComposedObject(KeyA, EmptyString, LabelFalse)]},
        rr \in PipelineRequired}

InitTTL ==
    /\ req \in TTLRequests
    /\ pc = "start"
    /\ desiredComposed = EmptyMap
    /\ visitOrder = << >>
    /\ groupOrder = << >>
    /\ protectedCount = 0
    /\ rsp = EmptyResponse
    /\ call = NoCall
    /\ jsonErr = {}
    /\ readErr = NoFailure
    /\ err = NotReturned
    /\ synth = << >>

SpecTTL == InitTTL /\ [][Next]_vars

----------------------------------------------------------------------------
(* RunFunction when encoding/json fails to convert some Usages: the error  *)
(* returns of convertViaJSON, which the code handles in each pass.         *)

\* names of resources whose Usage may fail to convert
FailingNames == {KeyA, KeyAUsage, NameB}

FaultComposedMaps(label) ==
    {[k \in S |-> ComposedObject(k, EmptyString, label)] : S \in SUBSET {KeyA, KeyAUsage}}

FaultRequests ==
    {[input |-> [enableV1Mode |-> v1, cacheTTL |-> ttl],
      desiredComposite |-> XR(EmptyString, l),
      observedComposite |-> XR(EmptyString, l),
      desiredComposed |-> dc,
      observedComposed |-> oc,
      requiredResources |-> rr] :
        v1 \in BOOLEAN, ttl \in {EmptyString, <<"5","x">>}, l \in {NoLabel, LabelTrue},
        dc \in FaultComposedMaps(LabelTrue), oc \in FaultComposedMaps(LabelFalse),
        rr \in PipelineRequired}

InitFault ==
    /\ req \in FaultRequests
    /\ \/ jsonErr \in SUBSET FailingNames /\ readErr = NoFailure
       \/ jsonErr = {} /\ readErr \in {"GetInput"} \union DOMAIN ReadMessage \union LateReads
    /\ err = NotReturned
    /\ pc = "start"
    /\ desiredComposed = EmptyMap
    /\ visitOrder = << >>
    /\ groupOrder = << >>
    /\ protectedCount = 0
    /\ rsp = EmptyResponse
    /\ call = NoCall
    /\ synth = << >>

SpecFault == InitFault /\ [][Next]_vars

\* the requests with v2 Usages and a labelled composite, every failure
InitRun ==
    /\ InitFault
    /\ ~req.input.enableV1Mode
    /\ ProtectResource(req.observedComposite)

\* RunFunction is sequential code on one goroutine: a statement that can be
\* executed is executed
SpecRun == InitRun /\ [][Next]_vars /\ WF_vars(Next)

----------------------------------------------------------------------------
(* The Usage generators called on their own, one call after the other.     *)

\* targets: K/a cluster-scoped and in the namespace n, K/a of another API
\* group, K/B, and XR/a
SynthTargets ==
    {Object("v1", KindK, NameA, EmptyString, NoLabel),
     Object("v1", KindK, NameA, NamespaceN, NoLabel),
     Object("v2", KindK, NameA, EmptyString, NoLabel),
     Object("v1", KindK, NameB, EmptyString, NoLabel),
     Object("v1", KindXR, NameA, EmptyString, NoLabel)}

SynthReasons ==
    {ProtectionReasonLabel, ProtectionReasonCompositeChildResource,
     ProtectionReasonOperation, ProtectionReasonWatchOperation}

\* the callers: RunFunction through GenerateUsage (fn.go:279, 303), and
\* ProtectRequiredResources through GenerateV2Usage (fn.go:368)
SynthCallers == {"GenerateUsage", "GenerateV2Usage"}

InitSynth ==
    /\ synth = << >>
    /\ pc = "synth"
    /\ req = [input |-> [enableV1Mode |-> FALSE, cacheTTL |-> EmptyString],
              desiredComposite |-> EmptyMap,
              observedComposite |-> EmptyMap,
              desiredComposed |-> EmptyMap,
              observedComposed |-> EmptyMap,
              requiredResources |-> EmptyMap]
    /\ desiredComposed = EmptyMap
    /\ visitOrder = << >>
    /\ groupOrder = << >>
    /\ protectedCount = 0
    /\ rsp = EmptyResponse
    /\ call = NoCall
    /\ jsonErr = {}
    /\ readErr = NoFailure
    /\ err = NotReturned

\* one call of a generator; it keeps no state of its own
CallGenerateUsage ==
    /\ pc = "synth"
    /\ Len(synth) < MaxCalls
    /\ \E u \in SynthTargets, reason \in SynthReasons, v1 \in BOOLEAN, caller \in SynthCallers :
          \* GenerateV2Usage takes no createV1Usages: recorded as FALSE
          /\ caller = "GenerateV2Usage" => ~v1
          /\ synth' = Append(synth,
                          [u |-> u, reason |-> reason, createV1Usages |-> v1, caller |-> caller,
                           usage |-> IF caller = "GenerateUsage"
                                     THEN GenerateUsage(u, reason, v1)
                                     ELSE GenerateV2Usage(u, reason)])
    /\ UNCHANGED <<req, pc, desiredComposed, visitOrder, groupOrder, protectedCount, rsp, call, jsonErr,
                   readErr, err>>

NextSynth == CallGenerateUsage

SpecSynth == InitSynth /\ [][NextSynth]_vars

----------------------------------------------------------------------------
(* ProtectResource called on its own.                                      *)

\* every spelling of "true" in upper and lower case
TrueSpellings ==
    {<<a, b, c, d>> : a \in {"t", "T"}, b \in {"r", "R"}, c \in {"u", "U"}, d \in {"e", "E"}}

\* label values that are not "true"
OtherValues ==
    {<<"f","a","l","s","e">>, <<"1">>, <<"y","e","s">>, << >>, <<"T","R","U","E"," ">>,
     <<" ","t","r","u","e">>, <<"t","r","u">>, <<"t","r","u","e","e">>}

OtherLabel == "app"

LabelMaps ==
    {EmptyMap, [k \in {OtherLabel} |-> StrTrue]}
    \cup {[k \in {ProtectionLabelBlockDeletion} |-> v] : v \in TrueSpellings \cup OtherValues}
    \cup {[k \in {ProtectionLabelBlockDeletion, OtherLabel} |->
              IF k = OtherLabel THEN StrTrue ELSE v] : v \in TrueSpellings \cup OtherValues}

LabelInputs ==
    {NilPointer, NilObject,
     [apiVersion |-> "v1", kind |-> KindK],
     [apiVersion |-> "v1", kind |-> KindK, metadata |-> [name |-> NameA]]}
    \cup {[apiVersion |-> "v1", kind |-> KindK, metadata |-> [name |-> NameA, labels |-> l]] :
             l \in LabelMaps}

InitLabel ==
    /\ call \in {[u |-> u, after |-> u, ret |-> FALSE, done |-> FALSE] : u \in LabelInputs}
    /\ pc = "call"
    /\ req = [input |-> [enableV1Mode |-> FALSE, cacheTTL |-> EmptyString],
              desiredComposite |-> EmptyMap,
              observedComposite |-> EmptyMap,
              desiredComposed |-> EmptyMap,
              observedComposed |-> EmptyMap,
              requiredResources |-> EmptyMap]
    /\ desiredComposed = EmptyMap
    /\ visitOrder = << >>
    /\ groupOrder = << >>
    /\ protectedCount = 0
    /\ rsp = EmptyResponse
    /\ jsonErr = {}
    /\ readErr = NoFailure
    /\ err = NotReturned
    /\ synth = << >>

\* ProtectResource(u): it reads a copy of the labels and changes nothing
CallProtectResource ==
    /\ pc = "call"
    /\ ~call.done
    /\ call' = [u |-> call.u, after |-> call.u, ret |-> ProtectResource(call.u), done |-> TRUE]
    /\ UNCHANGED <<req, pc, desiredComposed, visitOrder, groupOrder, protectedCount, rsp, jsonErr, synth,
                   readErr, err>>

NextLabel == CallProtectResource

SpecLabel == InitLabel /\ [][NextLabel]_vars

----------------------------------------------------------------------------
(* RunFunction as a function of the request and of the orders in which its *)
(* two range loops produce the keys.                                       *)

\* the range loop over desiredComposed, producing the keys order[i..]
RECURSIVE ComposedPass(_, _, _, _, _)
ComposedPass(out, order, i, observedComposed, v1) ==
    IF i > Len(order) \/ out.err
    THEN out
    ELSE ComposedPass(ComposedBody(out.dc, out.count, order[i], observedComposed, v1),
                      order, i + 1, observedComposed, v1)

\* the three steps one after the other
RunWith(r, keyOrder, requirementOrder, v1) ==
    LET p1 == ComposedPass([err |-> FALSE, dc |-> r.desiredComposed, count |-> 0],
                           keyOrder, 1, r.observedComposed, v1)
        p2 == IF p1.err THEN p1
              ELSE CompositeBody(p1.dc, p1.count, r.desiredComposite, r.observedComposite, v1)
    IN  IF p2.err THEN p2
        ELSE RequiredBody(p2.dc, p2.count, r.requiredResources, requirementOrder)

\* one order in which the loop can produce the keys of the request's map
\* (none of the keys inserted during the loop is produced)
ReferenceOrder(r) == CHOOSE o \in RangeOrders(DOMAIN r.desiredComposed) : TRUE

----------------------------------------------------------------------------
(* RunFunction as a later step of a pipeline that has run it before: the   *)
(* desired composed resources of the request are those the earlier step    *)
(* returned, and each step has its own required resources.                 *)

RerunRequired ==
    {EmptyMap,
     [g \in {RequirementsNameWatchedResource} |-> <<RequiredTL>>],
     [g \in {OtherRequirement} |-> <<RequiredTL, RequiredT>>]}

\* the requests of the earlier step
EarlierRequests ==
    {[input |-> [enableV1Mode |-> v1, cacheTTL |-> EmptyString],
      desiredComposite |-> XR(EmptyString, l),
      observedComposite |-> XR(EmptyString, l),
      desiredComposed |-> dc,
      observedComposed |-> oc,
      requiredResources |-> rr] :
        v1 \in BOOLEAN, l \in {NoLabel, LabelTrue},
        dc \in {EmptyMap, [k \in {KeyA} |-> ComposedObject(KeyA, EmptyString, LabelTrue)]},
        oc \in {EmptyMap, [k \in {KeyA} |-> ComposedObject(KeyA, EmptyString, LabelFalse)]},
        rr \in RerunRequired}

\* what the earlier step returned
EarlierDesired(r) ==
    RunWith(r, ReferenceOrder(r), ReferenceOrder([desiredComposed |-> r.requiredResources]),
            r.input.enableV1Mode).dc

RerunRequests ==
    {[r EXCEPT !.desiredComposed = EarlierDesired(r), !.requiredResources = rr] :
        r \in EarlierRequests, rr \in RerunRequired}

InitRerun ==
    /\ jsonErr = {}
    /\ readErr = NoFailure
    /\ err = NotReturned
    /\ req \in RerunRequests
    /\ pc = "start"
    /\ desiredComposed = EmptyMap
    /\ visitOrder = << >>
    /\ groupOrder = << >>
    /\ protectedCount = 0
    /\ rsp = EmptyResponse
    /\ call = NoCall
    /\ synth = << >>

SpecRerun == InitRerun /\ [][Next]_vars

----------------------------------------------------------------------------
(* Vocabulary of the properties.                                           *)

\* a composed key of the request that is on the cluster and carries the label
\* on its desired or its observed copy
Eligible(r, k) ==
    /\ k \in DOMAIN r.desiredComposed
    /\ k \in DOMAIN r.observedComposed
    /\ (ProtectResource(r.desiredComposed[k]) \/ ProtectResource(r.observedComposed[k]))

ChildProtected(r) == \E k \in DOMAIN r.desiredComposed : Eligible(r, k)

CompositeLabeled(r) ==
    ProtectResource(r.desiredComposite) \/ ProtectResource(r.observedComposite)

\* entry is a Usage of target with the given reason
IsGuardFor(entry, target, reason) ==
    /\ "spec" \in DOMAIN entry
    /\ entry.spec.of.apiVersion = GetAPIVersion(target)
    /\ entry.spec.of.kind = GetKind(target)
    /\ entry.spec.of.resourceRef = [name |-> GetName(target)]
    /\ entry.spec.reason = reason

IsGuard(entry) == "spec" \in DOMAIN entry

\* the key under which the response carries the composite's Usage
XRUsageKey(r) == ToLower(<<"x","r","-">> \o GetName(r.observedComposite) \o <<"-","u","s","a","g","e">>)

\* the keys under which ProtectRequiredResources stores Usages
IsRequiredKey(k) ==
    /\ Len(k) >= Len(RequiredKeySuffix)
    /\ SubSeq(k, Len(k) - Len(RequiredKeySuffix) + 1, Len(k)) = RequiredKeySuffix

Returned == pc = "done" /\ rsp.results = << >>

----------------------------------------------------------------------------
(* C1: cascade law.  Whenever a key of the request's desired composed map  *)
(* is also observed and labelled (desired or observed copy), the returned  *)
(* desired set holds a Usage of the observed composite under the           *)
(* composite's key, and its reason is the child-resource reason, whether   *)
(* or not the composite carries the label itself.                          *)
C1_CascadeLaw ==
    (pc = "done" /\ ChildProtected(req)) =>
        /\ rsp.results = << >>
        /\ XRUsageKey(req) \in DOMAIN rsp.desired
        /\ IsGuardFor(rsp.desired[XRUsageKey(req)], req.observedComposite,
                      ProtectionReasonCompositeChildResource)

C1_Witness ==
    /\ pc = "done"
    /\ ChildProtected(req)
    /\ CompositeLabeled(req)
    /\ rsp.desired[XRUsageKey(req)].spec.reason = ProtectionReasonCompositeChildResource

(* C2: no-cascade law.  When no composed key is eligible and neither copy  *)
(* of the composite is labelled, the composed and composite steps leave    *)
(* the desired map as the request gave it and the count at 0; the returned *)
(* set keeps every entry of the request, and whatever it holds besides is  *)
(* a Usage of a required resource under a required-resource key, so       *)
(* without required resources the set is returned unchanged with count 0.  *)
C2_NoCascadeLaw ==
    (~ChildProtected(req) /\ ~CompositeLabeled(req)) =>
        /\ pc \in {"composed", "composite", "required"} =>
              /\ desiredComposed = req.desiredComposed
              /\ protectedCount = 0
        /\ pc = "done" =>
              /\ rsp.results = << >>
              /\ \A k \in DOMAIN req.desiredComposed :
                    k \in DOMAIN rsp.desired /\ rsp.desired[k] = req.desiredComposed[k]
              /\ \A k \in (DOMAIN rsp.desired) \ (DOMAIN req.desiredComposed) :
                    /\ IsRequiredKey(k)
                    /\ k # XRUsageKey(req)
                    /\ rsp.desired[k].spec.reason \in
                          {ProtectionReasonOperation, ProtectionReasonWatchOperation}
              /\ req.requiredResources = EmptyMap =>
                    (rsp.desired = req.desiredComposed /\ protectedCount = 0)

C2_Witness ==
    /\ pc = "done"
    /\ ~ChildProtected(req) /\ ~CompositeLabeled(req)
    /\ \E k \in DOMAIN req.desiredComposed :
          ProtectResource(req.desiredComposed[k]) /\ k \notin DOMAIN req.observedComposed
    /\ req.requiredResources = EmptyMap
    /\ rsp.desired = req.desiredComposed

(* C3: composed-resource pass.  When the pass has ended, a Usage of the    *)
(* observed copy of k with the label reason sits under k + "-usage"        *)
(* exactly for the keys k of the request that are in both composed maps    *)
(* and labelled on the desired or the observed copy; in particular no      *)
(* Usage is made for a key that is only desired.                           *)
C3_ComposedPass ==
    pc = "composite" =>
        \A k \in (DOMAIN req.desiredComposed) \cup (DOMAIN req.observedComposed)
                 \cup Range(visitOrder) :
            Eligible(req, k) <=>
                /\ k \in DOMAIN req.observedComposed
                /\ (k \o UsageKeySuffix) \in DOMAIN desiredComposed
                /\ IsGuardFor(desiredComposed[k \o UsageKeySuffix], req.observedComposed[k],
                              ProtectionReasonLabel)

C6_OrderIndependence ==
    Returned =>
        LET ref == RunWith(req, ReferenceOrder(req), groupOrder, req.input.enableV1Mode)
        IN  rsp.desired = ref.dc /\ protectedCount = ref.count

(* C4: watch-group unconditional protection.  The returned set holds,     *)
(* for every resource of the group "ops.crossplane.io/watched-resource",   *)
(* a Usage of it with the watch reason, whatever its labels; for every     *)
(* labelled resource of another group, a Usage of it with the operation    *)
(* reason; and a key of an unlabelled resource of another group is in the  *)
(* set only when another required resource with that key is protected.     *)
C4_WatchGroup ==
    Returned =>
        \A g \in DOMAIN req.requiredResources :
            \A i \in 1..Len(req.requiredResources[g]) :
                LET r == req.requiredResources[g][i]
                    k == RequiredKey(r)
                IN  IF g = RequirementsNameWatchedResource
                    THEN /\ k \in DOMAIN rsp.desired
                         /\ IsGuardFor(rsp.desired[k], r, ProtectionReasonWatchOperation)
                    ELSE IF ProtectResource(r)
                    THEN /\ k \in DOMAIN rsp.desired
                         /\ IsGuardFor(rsp.desired[k], r, ProtectionReasonOperation)
                    ELSE k \in DOMAIN rsp.desired =>
                            \E h \in DOMAIN req.requiredResources :
                                \E j \in 1..Len(req.requiredResources[h]) :
                                    /\ RequiredKey(req.requiredResources[h][j]) = k
                                    /\ \/ h = RequirementsNameWatchedResource
                                       \/ ProtectResource(req.requiredResources[h][j])

\* the run of the same request, with the same loop orders, under the other
\* value of enableV1Mode
OtherMode == RunWith(req, visitOrder, groupOrder, ~req.input.enableV1Mode)

(* C7: schema toggle isolation, as claimed.  The run under the other value *)
(* of enableV1Mode returns the same keys and count, the entries that are   *)
(* not Usages are equal, and two corresponding Usages have equal metadata  *)
(* and equal spec: they differ in apiVersion and kind only.                *)
C7_ToggleOnlySchema ==
    Returned =>
        LET other == OtherMode
        IN
        /\ ~other.err
        /\ DOMAIN other.dc = DOMAIN rsp.desired
        /\ other.count = protectedCount
        /\ \A k \in DOMAIN rsp.desired :
              LET a == rsp.desired[k]
                  b == other.dc[k]
              IN  IF IsGuard(a)
                  THEN IsGuard(b) /\ a.metadata = b.metadata /\ a.spec = b.spec
                  ELSE a = b

(* C7 amended: as above, but two corresponding Usages may also differ in   *)
(* metadata.namespace, which a v1 Usage never carries; metadata.name,      *)
(* spec.of and spec.reason are equal, and so are the keys and the count.   *)
C7_ToggleIsolation ==
    Returned =>
        LET other == OtherMode
        IN
        /\ ~other.err
        /\ DOMAIN other.dc = DOMAIN rsp.desired
        /\ other.count = protectedCount
        /\ \A k \in DOMAIN rsp.desired :
              LET a == rsp.desired[k]
                  b == other.dc[k]
                  v1 == IF req.input.enableV1Mode THEN a ELSE b
              IN  IF IsGuard(a)
                  THEN /\ IsGuard(b)
                       /\ a.spec = b.spec
                       /\ a.metadata.name = b.metadata.name
                       /\ (DOMAIN a.metadata) \cup (DOMAIN b.metadata) \subseteq {"name", "namespace"}
                       /\ a.metadata # b.metadata =>
                             (v1.apiVersion = ProtectionV1GroupVersion /\ ~HasMeta(v1, "namespace"))
                  ELSE a = b

C7_Witness ==
    /\ Returned
    /\ ~req.input.enableV1Mode
    /\ visitOrder # << >>
    /\ groupOrder # << >>
    /\ \E k \in DOMAIN rsp.desired :
          /\ ~IsRequiredKey(k)
          /\ IsGuard(rsp.desired[k])
          /\ HasMeta(rsp.desired[k], "namespace")
          /\ rsp.desired[k].metadata # OtherMode.dc[k].metadata
    /\ IsGuardFor(rsp.desired[XRUsageKey(req)], req.observedComposite,
                  ProtectionReasonCompositeChildResource)

(* C8: legacy mode.  When enableV1Mode is true every Usage in the returned *)
(* set is a v1 Usage: apiVersion apiextensions.crossplane.io/v1beta1 and   *)
(* kind Usage.                                                             *)
C8_LegacyMode ==
    (Returned /\ req.input.enableV1Mode) =>
        \A k \in DOMAIN rsp.desired :
            IsGuard(rsp.desired[k]) =>
                /\ rsp.desired[k].apiVersion = ProtectionV1GroupVersion
                /\ rsp.desired[k].kind = V1UsageKind

\* the Usages in the map m together with the resources they were generated
\* from: the observed copy of a composed key, the observed composite, or a
\* required resource
Synthesized(m) ==
    {p \in {<<k \o UsageKeySuffix, req.observedComposed[k]>> : k \in DOMAIN req.observedComposed}
           \cup {<<XRUsageKey(req), req.observedComposite>>}
           \cup UNION {{<<RequiredKey(req.requiredResources[g][i]), req.requiredResources[g][i]>> :
                           i \in 1..Len(req.requiredResources[g])} : g \in DOMAIN req.requiredResources} :
        /\ p[1] \in DOMAIN m
        /\ IsGuard(m[p[1]])
        /\ IsGuardFor(m[p[1]], p[2], m[p[1]].spec.reason)}

\* the kinds of the schema a Usage is written in
ClusterKindOf(g) == IF g.apiVersion = ProtectionV1GroupVersion THEN V1UsageKind ELSE ClusterUsageKind
NamespacedKindOf(g) == IF g.apiVersion = ProtectionV1GroupVersion THEN V1UsageKind ELSE UsageKind

ScopeCorrect(g, target) ==
    IF GetNamespace(target) = EmptyString
    THEN g.kind = ClusterKindOf(g) /\ ~HasMeta(g, "namespace")
    ELSE /\ g.kind = NamespacedKindOf(g)
         /\ HasMeta(g, "namespace")
         /\ g.metadata.namespace = GetNamespace(target)

(* C9: scope correctness, as claimed.  Every Usage generated for a target  *)
(* without namespace has the cluster-scoped kind and no                    *)
(* metadata.namespace, every Usage generated for a target with a namespace *)
(* has the namespaced kind and the target's namespace, under both values   *)
(* of enableV1Mode.                                                        *)
C9_ScopeBothModes ==
    \A p \in Synthesized(desiredComposed) : ScopeCorrect(desiredComposed[p[1]], p[2])

(* C9 amended: the above holds of every v2 Usage (enableV1Mode false, and  *)
(* the Usages of required resources in either mode); a v1 Usage has kind   *)
(* Usage and no metadata.namespace whatever the target's namespace.        *)
C9_ScopeCorrectness ==
    \A p \in Synthesized(desiredComposed) :
        LET g == desiredComposed[p[1]]
        IN  IF g.apiVersion = ProtectionV1GroupVersion
            THEN /\ req.input.enableV1Mode
                 /\ ~IsRequiredKey(p[1])
                 /\ g.kind = V1UsageKind
                 /\ ~HasMeta(g, "namespace")
            ELSE /\ g.apiVersion = ProtectionGroupVersion
                 /\ (req.input.enableV1Mode => IsRequiredKey(p[1]))
                 /\ ScopeCorrect(g, p[2])

C9_Witness ==
    /\ pc = "done"
    /\ req.input.enableV1Mode
    /\ \E p \in Synthesized(rsp.desired) :
          /\ GetNamespace(p[2]) # EmptyString
          /\ rsp.desired[p[1]].apiVersion = ProtectionV1GroupVersion
    /\ \E p \in Synthesized(rsp.desired) :
          /\ GetNamespace(p[2]) # EmptyString
          /\ rsp.desired[p[1]].kind = UsageKind
          /\ rsp.desired[p[1]].apiVersion = ProtectionGroupVersion
          /\ GetNamespace(rsp.desired[p[1]]) = GetNamespace(p[2])
    /\ \E p \in Synthesized(rsp.desired) :
          /\ GetNamespace(p[2]) = EmptyString
          /\ rsp.desired[p[1]].apiVersion = ProtectionGroupVersion
          /\ rsp.desired[p[1]].kind = ClusterUsageKind

\* the value of the enabling label of u, when u has it
HasEnablingLabel(u) ==
    /\ "metadata" \in DOMAIN u
    /\ "labels" \in DOMAIN u.metadata
    /\ ProtectionLabelBlockDeletion \in DOMAIN u.metadata.labels
EnablingValue(u) == u.metadata.labels[ProtectionLabelBlockDeletion]

(* C10: ProtectResource returns true exactly when the resource is not nil, *)
(* has the label protection.fn.crossplane.io/block-deletion, and the value *)
(* is one of the sixteen upper/lower-case spellings of "true"; it returns  *)
(* false for "false", "1", "yes", "" and "TRUE " in particular, and the    *)
(* resource is the same after the call.                                    *)
C10_ProtectResource ==
    call.done =>
        /\ call.ret <=> (HasEnablingLabel(call.u) /\ EnablingValue(call.u) \in TrueSpellings)
        /\ call.u \in {NilPointer, NilObject} => ~call.ret
        /\ (HasEnablingLabel(call.u) /\ EnablingValue(call.u) \in
               {<<"f","a","l","s","e">>, <<"1">>, <<"y","e","s">>, << >>, <<"T","R","U","E"," ">>})
              => ~call.ret
        /\ call.after = call.u

C10_Witness ==
    /\ call.done
    /\ call.ret
    /\ EnablingValue(call.u) = <<"t","R","u","E">>
    /\ OtherLabel \in DOMAIN call.u.metadata.labels

(* C11: frame.  Every entry of the request's desired composed map is in    *)
(* the returned desired composed set under the same key with the same      *)
(* content, and while the three passes run no entry of the request is      *)
(* overwritten or removed from the local map: the passes only add.         *)
C11_Frame ==
    /\ pc \in {"composed", "composite", "required", "set"} =>
          \A k \in DOMAIN req.desiredComposed :
              k \in DOMAIN desiredComposed /\ desiredComposed[k] = req.desiredComposed[k]
    /\ pc = "done" =>
          \A k \in DOMAIN req.desiredComposed :
              k \in DOMAIN rsp.desired /\ rsp.desired[k] = req.desiredComposed[k]

\* the identity of a target resource
TargetIdentity(u) == <<GetKind(u), GetNamespace(u), GetName(u)>>

(* C12: at most one Usage per distinct target (kind, namespace, name)      *)
(* within each entry point: two Usages the composed and composite passes   *)
(* put into the map are Usages of targets with different identities, and   *)
(* so are two Usages ProtectRequiredResources returns.                     *)
C12_OneGuardPerTarget ==
    \A p, q \in Synthesized(desiredComposed) :
        (IsRequiredKey(p[1]) = IsRequiredKey(q[1]) /\ TargetIdentity(p[2]) = TargetIdentity(q[2]))
            => p[1] = q[1]

\* RunFunction returned right after reading the input: no resource was read
\* and no pass ran
NoPassRan ==
    /\ desiredComposed = EmptyMap
    /\ visitOrder = << >>
    /\ groupOrder = << >>
    /\ protectedCount = 0

\* the one result of the response is fatal and targeted at the composite
OneFatal ==
    /\ Len(rsp.results) = 1
    /\ rsp.results[1].severity = "fatal"
    /\ rsp.results[1].target = "composite"

(* C13: configuration error, as claimed.  With a cacheTTL that is not      *)
(* empty and not a duration, RunFunction returns right after reading the   *)
(* input: exactly one fatal result targeted at the composite, the default  *)
(* TTL of one minute, no desired composed resources and no Usages; no      *)
(* pass runs.                                                              *)
C13_InvalidTTLEmpty ==
    (req.input.cacheTTL \in InvalidTTLs /\ pc # "start") =>
        /\ pc = "done"
        /\ OneFatal
        /\ rsp.ttl = 60 * 1000
        /\ rsp.desired = EmptyMap
        /\ NoPassRan

(* C13 amended: as above, but the desired composed resources of the        *)
(* response are those of the request, unchanged (none when the request has *)
(* none); no Usage is added.                                               *)
C13_InvalidTTL ==
    (req.input.cacheTTL \in InvalidTTLs /\ pc # "start") =>
        /\ pc = "done"
        /\ OneFatal
        /\ rsp.results[1].message = "cannot set cacheTTL"
        /\ rsp.ttl = 60 * 1000
        /\ rsp.desired = req.desiredComposed
        /\ \A k \in DOMAIN rsp.desired : ~IsGuard(rsp.desired[k])
        /\ NoPassRan

C13_Witness ==
    /\ pc = "done"
    /\ req.input.cacheTTL = <<"5","x">>
    /\ OneFatal
    /\ req.desiredComposed # EmptyMap
    /\ KeyA \in DOMAIN req.observedComposed
    /\ req.requiredResources # EmptyMap
    /\ rsp.desired = req.desiredComposed

(* C18: response cache TTL.  With an empty cacheTTL the response has the   *)
(* default TTL of one minute, with a cacheTTL that is a duration it has    *)
(* that duration ("5m" five minutes, "1m30s" and "90s" ninety seconds,     *)
(* "500ms" half a second), and no result is fatal; the returned desired    *)
(* set and the count are those the three passes produce for the request    *)
(* whatever the cacheTTL.                                                  *)
C18_ResponseTTL ==
    (pc = "done" /\ req.input.cacheTTL \notin InvalidTTLs) =>
        /\ rsp.results = << >>
        /\ req.input.cacheTTL = EmptyString => rsp.ttl = 60 * 1000
        /\ req.input.cacheTTL \in DOMAIN ValidTTL => rsp.ttl = ValidTTL[req.input.cacheTTL]
        /\ LET run == RunWith(req, visitOrder, groupOrder, req.input.enableV1Mode)
           IN  rsp.desired = run.dc /\ protectedCount = run.count

C18_Witness ==
    /\ pc = "done"
    /\ req.input.cacheTTL = <<"1","m","3","0","s">>
    /\ rsp.ttl = 90000
    /\ KeyAUsage \in DOMAIN rsp.desired
    /\ XRUsageKey(req) \in DOMAIN rsp.desired
    /\ \E k \in DOMAIN rsp.desired : IsRequiredKey(k)

(* C14: synthesis failure.  When the conversion of a Usage fails in the    *)
(* composed, the composite or the required pass, RunFunction stops there   *)
(* with one fatal result, and the desired composed set of the response     *)
(* holds no Usage at all, not even those converted before the failure: it  *)
(* is the set of the request.  A composite whose Usage cannot be converted *)
(* never yields a response without the fatal result.                       *)
C14_SynthesisFailure ==
    /\ rsp.results # << >> =>
          /\ pc = "done"
          /\ OneFatal
          /\ rsp.desired = req.desiredComposed
          /\ \A k \in DOMAIN rsp.desired : ~IsGuard(rsp.desired[k])
    /\ (pc = "done" /\ GetName(req.observedComposite) \in jsonErr
            /\ (CompositeLabeled(req) \/ ChildProtected(req)))
          => rsp.results # << >>

C14_Witness ==
    /\ pc = "done"
    /\ OneFatal
    /\ rsp.results[1].message = "cannot process required resources"
    /\ \E k \in DOMAIN desiredComposed : IsGuard(desiredComposed[k]) /\ k # XRUsageKey(req)
    /\ XRUsageKey(req) \in DOMAIN desiredComposed
    /\ protectedCount = 2
    /\ rsp.desired = req.desiredComposed

(* C15: name determinism.  Two Usages generated for targets with equal     *)
(* apiVersion, kind, name and namespace have equal metadata.name, whatever *)
(* the reasons, the values of the v1 flag, the callers, and the calls made *)
(* before.                                                                 *)
C15_NameDeterminism ==
    \A i, j \in 1..Len(synth) :
        (/\ GetAPIVersion(synth[i].u) = GetAPIVersion(synth[j].u)
         /\ GetKind(synth[i].u) = GetKind(synth[j].u)
         /\ GetName(synth[i].u) = GetName(synth[j].u)
         /\ GetNamespace(synth[i].u) = GetNamespace(synth[j].u))
            => synth[i].usage.metadata.name = synth[j].usage.metadata.name

C15_Witness ==
    /\ Len(synth) = 2
    /\ synth[1].u = synth[2].u
    /\ GetNamespace(synth[1].u) # EmptyString
    /\ synth[1].reason # synth[2].reason
    /\ synth[1].caller = "GenerateUsage" /\ synth[1].createV1Usages
    /\ synth[2].caller = "GenerateV2Usage"
    /\ synth[1].usage.apiVersion # synth[2].usage.apiVersion
    /\ synth[1].usage.metadata.name = synth[2].usage.metadata.name

\* the string the short hash in the name of a Usage is computed from
HashInput(usage) == usage.metadata.name.digestOf

(* C16: the short hash, as claimed.  Two targets with the same kind and    *)
(* name and different namespaces get Usage names with different hash       *)
(* parts (the digest taken as collision-free).                             *)
C16_HashOverIdentity ==
    \A i, j \in 1..Len(synth) :
        (/\ GetKind(synth[i].u) = GetKind(synth[j].u)
         /\ GetName(synth[i].u) = GetName(synth[j].u)
         /\ GetNamespace(synth[i].u) # GetNamespace(synth[j].u))
            => HashInput(synth[i].usage) # HashInput(synth[j].usage)

(* C16 amended: the short hash is computed over lower(kind + "-" + name)   *)
(* alone.  Two targets get the same hash part exactly when they have the   *)
(* same lower-cased kind and name, in whatever namespaces they are.        *)
C16_HashOverKindName ==
    \A i, j \in 1..Len(synth) :
        HashInput(synth[i].usage) = HashInput(synth[j].usage)
            <=> ToLower(GetKind(synth[i].u) \o Dash \o GetName(synth[i].u))
                    = ToLower(GetKind(synth[j].u) \o Dash \o GetName(synth[j].u))

C16_Witness ==
    /\ Len(synth) = 2
    /\ GetKind(synth[1].u) = GetKind(synth[2].u)
    /\ GetName(synth[1].u) = GetName(synth[2].u)
    /\ GetNamespace(synth[1].u) = EmptyString
    /\ GetNamespace(synth[2].u) = NamespaceN
    /\ synth[2].usage.kind = UsageKind /\ synth[2].usage.apiVersion = ProtectionGroupVersion
    /\ HashInput(synth[1].usage) = HashInput(synth[2].usage)
    /\ synth[1].usage.metadata.name = synth[2].usage.metadata.name

(* C17: reason wording.  The Usage made for the composite because a        *)
(* composed resource is protected carries exactly the reason "created by   *)
(* function-deletion-protection by a protected child resource", with       *)
(* enableV1Mode false and true, and every Usage of the returned set        *)
(* carries that reason or one of the three others, letter for letter.      *)
C17_ReasonWording ==
    Returned =>
        /\ ChildProtected(req) =>
              rsp.desired[XRUsageKey(req)].spec.reason
                  = "created by function-deletion-protection by a protected child resource"
        /\ \A k \in DOMAIN rsp.desired :
              IsGuard(rsp.desired[k]) =>
                  rsp.desired[k].spec.reason \in
                      {"created by function-deletion-protection by a protected child resource",
                       "created by function-deletion-protection via label protection.fn.crossplane.io/block-deletion",
                       "created by function-deletion-protection by an Operation",
                       "created by function-deletion-protection by a WatchOperation"}

\* both copies of the composed key k carry the label
BothLabeled(r, k) ==
    /\ k \in DOMAIN r.desiredComposed
    /\ k \in DOMAIN r.observedComposed
    /\ ProtectResource(r.desiredComposed[k])
    /\ ProtectResource(r.observedComposed[k])

\* the step changes the map in the entry under key only, if at all
OnlyEntry(key) ==
    /\ DOMAIN desiredComposed' = (DOMAIN desiredComposed) \cup {key}
    /\ \A j \in (DOMAIN desiredComposed) \ {key} : desiredComposed'[j] = desiredComposed[j]

(* C19: decisions are OR'd.  The iteration of the composed pass for a key  *)
(* whose desired and observed copies both carry the label puts exactly one *)
(* Usage into the map, the Usage of the observed copy under key +          *)
(* "-usage", and adds exactly one to protectedCount; the composite step    *)
(* for a composite labelled on both copies puts one Usage under the        *)
(* composite's key and adds exactly one.                                   *)
C19_DecisionsOred ==
    [][/\ \A k \in DOMAIN req.desiredComposed :
             (pc = "composed" /\ visitOrder' = Append(visitOrder, k) /\ BothLabeled(req, k)) =>
                 /\ protectedCount' = protectedCount + 1
                 /\ OnlyEntry(k \o UsageKeySuffix)
                 /\ IsGuardFor(desiredComposed'[k \o UsageKeySuffix], req.observedComposed[k],
                               ProtectionReasonLabel)
       /\ (pc = "composite" /\ pc' # pc /\ ProtectResource(req.desiredComposite)
              /\ ProtectResource(req.observedComposite)) =>
                 /\ protectedCount' = protectedCount + 1
                 /\ OnlyEntry(XRUsageKey(req))
                 /\ IsGuard(desiredComposed'[XRUsageKey(req)])
      ]_vars

C19_Witness ==
    /\ pc = "required"
    /\ ProtectResource(req.desiredComposite) /\ ProtectResource(req.observedComposite)
    /\ BothLabeled(req, KeyA)
    /\ DOMAIN req.desiredComposed = {KeyA}
    /\ protectedCount = 2
    /\ DOMAIN desiredComposed = {KeyA, KeyAUsage, XRUsageKey(req)}

\* the keys of the Usages ProtectRequiredResources returns for the request
RequiredGuardKeys(r) ==
    UNION {{RequiredKey(r.requiredResources[g][i]) :
               i \in {n \in 1..Len(r.requiredResources[g]) :
                         \/ g = RequirementsNameWatchedResource
                         \/ ProtectResource(r.requiredResources[g][n])}}
           : g \in DOMAIN r.requiredResources}

(* C20: required-resource key space.  The key of a Usage of a required     *)
(* resource is the key of no entry of the request's desired composed map,  *)
(* no key of the composed pass (k + "-usage") and not the composite's key, *)
(* so that when the required Usages have been merged, every entry the map  *)
(* held before under any of these keys is still the same.                  *)
C20_RequiredKeySpace ==
    pc \in {"set", "done"} =>
        \A k \in RequiredGuardKeys(req) :
            /\ k \notin DOMAIN req.desiredComposed
            /\ \A j \in DOMAIN req.desiredComposed : k # j \o UsageKeySuffix
            /\ k # XRUsageKey(req)
            /\ \A j \in DOMAIN req.desiredComposed :
                  IsRequiredKey(j) => desiredComposed[j] = req.desiredComposed[j]

(* C21: the reference of a Usage.  In every Usage, of either schema and    *)
(* for each of the four reasons, spec.of has the apiVersion and the kind   *)
(* of the target and a resourceRef with the name of the target and no      *)
(* other field, and spec.reason is the reason the generator was given.     *)
C21_OfReference ==
    \A i \in 1..Len(synth) :
        LET c == synth[i]
        IN  /\ DOMAIN c.usage.spec.of = {"apiVersion", "kind", "resourceRef"}
            /\ c.usage.spec.of.apiVersion = GetAPIVersion(c.u)
            /\ c.usage.spec.of.kind = GetKind(c.u)
            /\ DOMAIN c.usage.spec.of.resourceRef = {"name"}
            /\ c.usage.spec.of.resourceRef.name = GetName(c.u)
            /\ c.usage.spec.reason = c.reason

C21_Witness ==
    /\ Len(synth) = 2
    /\ synth[1].caller = "GenerateUsage" /\ synth[1].createV1Usages
    /\ synth[1].usage.apiVersion = ProtectionV1GroupVersion
    /\ synth[1].reason = ProtectionReasonCompositeChildResource
    /\ synth[2].caller = "GenerateV2Usage"
    /\ synth[2].reason = ProtectionReasonWatchOperation
    /\ GetNamespace(synth[2].u) = NamespaceN
    /\ synth[2].usage.kind = UsageKind
    /\ synth[2].usage.metadata.namespace = NamespaceN
    /\ synth[2].usage.spec.of.resourceRef.name = NameA
    /\ synth[2].usage.spec.reason = ProtectionReasonWatchOperation

\* the keys of the response under which the invocation put a Usage
AddedGuardKeys ==
    {k \in DOMAIN rsp.desired :
        /\ IsGuard(rsp.desired[k])
        /\ (k \in DOMAIN req.desiredComposed => req.desiredComposed[k] # rsp.desired[k])}

(* C22: protection count.  When RunFunction returns without a fatal        *)
(* result, protectedCount is the number of Usage entries the invocation    *)
(* added to the desired composed resources of the response.                *)
C22_ProtectionCount ==
    Returned => protectedCount = Cardinality(AddedGuardKeys)

\* the composite step has been taken: its Usage is there if it was due
CompositeDecided ==
    (CompositeLabeled(req) \/ protectedCount > 0)
        => /\ XRUsageKey(req) \in DOMAIN desiredComposed
           /\ IsGuard(desiredComposed[XRUsageKey(req)])

(* C23: phase ordering.  The composite step is taken only when the loop    *)
(* has produced every key of the request's desired composed resources and  *)
(* protectedCount has counted the protected ones; the required resources   *)
(* are processed only after the composite step; the desired resources of   *)
(* the response are set only after the three passes and hold their whole   *)
(* result; a response with a fatal result holds the desired resources of   *)
(* the request, never a part of the result.                                *)
C23_PhaseOrdering ==
    [][/\ (pc = "composite" /\ pc' # pc)
            => /\ DOMAIN req.desiredComposed \subseteq Range(visitOrder)
               /\ ChildProtected(req) => protectedCount > 0
       /\ (pc = "required" /\ pc' # pc)
            => /\ DOMAIN req.desiredComposed \subseteq Range(visitOrder)
               /\ CompositeDecided
               /\ groupOrder = << >>
       /\ groupOrder' # groupOrder => pc = "required"
       /\ rsp'.desired # rsp.desired
            => \/ pc = "start" /\ rsp'.desired = req.desiredComposed
               \/ /\ pc = "set" /\ pc' = "done"
                  /\ rsp'.results = << >>
                  /\ LET run == RunWith(req, visitOrder, groupOrder, req.input.enableV1Mode)
                     IN  /\ ~run.err
                         /\ rsp'.desired = run.dc
                         /\ protectedCount = run.count
       /\ (pc' = "done" /\ rsp'.results # << >>) => rsp'.desired = req.desiredComposed
      ]_vars

C23_Witness ==
    /\ Returned
    /\ Cardinality(DOMAIN req.desiredComposed) = 2
    /\ \E k \in Range(visitOrder) : k \notin DOMAIN req.desiredComposed
    /\ XRUsageKey(req) \in DOMAIN rsp.desired
    /\ groupOrder # << >>
    /\ \E k \in DOMAIN rsp.desired : IsRequiredKey(k)
    /\ protectedCount >= 3
    /\ rsp.desired = desiredComposed

\* the cacheTTL of the request is not empty and not a duration
MalformedTTL == req.input.cacheTTL # EmptyString /\ ParseDuration(req.input.cacheTTL).err

\* a read of the request made before the passes cannot be done
EarlyFailure == readErr \in {"GetInput"} \union DOMAIN ReadMessage \/ MalformedTTL

\* the passes as they ran stop at a Usage that cannot be converted
ConversionFailure == RunWith(req, visitOrder, groupOrder, req.input.enableV1Mode).err

(* C24: errors at the boundary.  RunFunction returns the nil error always. *)
(* Input that cannot be read, a malformed cacheTTL, a composite, composed  *)
(* or required resources that cannot be read, a Usage that cannot be       *)
(* converted, desired resources that cannot be set: each one ends the      *)
(* invocation with exactly one fatal result in the response, and nothing   *)
(* that comes after it in the code has run; a response without a fatal     *)
(* result means that none of them happened.                                *)
C24_ErrorsAreFatalResults ==
    /\ err \in {NotReturned, NilError}
    /\ pc = "done" <=> err = NilError
    /\ rsp.results # << >> => pc = "done" /\ OneFatal /\ rsp.desired = req.desiredComposed
    /\ pc = "done" =>
          /\ EarlyFailure => OneFatal /\ NoPassRan
          /\ (readErr = "GetInput" /\ MalformedTTL)
                => rsp.results[1].message = "cannot get Function input"
          /\ (MalformedTTL /\ readErr \in DOMAIN ReadMessage)
                => rsp.results[1].message = "cannot set cacheTTL"
          /\ (~EarlyFailure /\ ConversionFailure)
                => /\ OneFatal
                   /\ rsp.results[1].message \in {"cannot convert usage to unstructured",
                                                  "cannot process required resources"}
                   /\ rsp.results[1].message = "cannot convert usage to unstructured"
                         => groupOrder = << >>
          /\ (~EarlyFailure /\ readErr = "GetRequiredResources")
                => /\ OneFatal
                   /\ rsp.results[1].message = "cannot get required resources"
                   /\ groupOrder = << >>
                   /\ \A k \in DOMAIN desiredComposed :
                         IsRequiredKey(k) => k \in DOMAIN req.desiredComposed
          /\ (~EarlyFailure /\ readErr = "SetDesiredComposedResources")
                => /\ OneFatal
                   /\ rsp.results[1].message = "cannot set desired resources"
          /\ rsp.results = << >>
                => ~EarlyFailure /\ ~ConversionFailure /\ readErr = NoFailure

C24_Witness ==
    /\ pc = "done"
    /\ err = NilError
    /\ OneFatal
    /\ rsp.results[1].message = "cannot set desired resources"
    /\ protectedCount >= 2
    /\ \E k \in DOMAIN desiredComposed : IsRequiredKey(k)
    /\ rsp.desired = req.desiredComposed

(* C25: termination.  Every invocation of RunFunction returns: the range   *)
(* loop over desiredComposed, which stores new keys into the map it ranges *)
(* over, produces finitely many keys, and the invocation then reaches its  *)
(* response, with a fatal result or complete.                              *)
C25_Terminates == <>(pc = "done" /\ err = NilError)

C25_Witness ==
    /\ pc = "done"
    /\ Len(visitOrder) = 3
    /\ \E i \in 1..Len(visitOrder) : visitOrder[i] \notin DOMAIN req.desiredComposed
    /\ Cardinality(DOMAIN desiredComposed) > Cardinality(DOMAIN req.desiredComposed)
    /\ rsp.desired = desiredComposed

\* the required resources of r that are to be protected: those of the
\* watched group, and the labelled ones of the other groups
ProtectedRequired(r) ==
    {r.requiredResources[g][i] :
        <<g, i>> \in {<<g, i>> \in (DOMAIN r.requiredResources) \X (1..MaxGroupLen) :
                        /\ i <= Len(r.requiredResources[g])
                        /\ \/ g = RequirementsNameWatchedResource
                           \/ ProtectResource(r.requiredResources[g][i])}}

\* entry is a Usage that refers to the resource target
RefersTo(entry, target) ==
    /\ IsGuard(entry)
    /\ entry.spec.of = [apiVersion |-> GetAPIVersion(target), kind |-> GetKind(target),
                        resourceRef |-> [name |-> GetName(target)]]
    /\ GetNamespace(entry) = GetNamespace(target)

(* C26: Operation mode.  With no composite and no composed resources, the  *)
(* returned set holds exactly one Usage for each resource of the watched   *)
(* group and for each labelled resource of another group, and nothing      *)
(* else: no Usage for an unlabelled resource of another group, none for    *)
(* the composite.                                                          *)
C26_OperationMode ==
    Returned =>
        /\ \A t \in ProtectedRequired(req) :
              Cardinality({k \in DOMAIN rsp.desired : RefersTo(rsp.desired[k], t)}) = 1
        /\ \A k \in DOMAIN rsp.desired :
              /\ IsRequiredKey(k)
              /\ \E t \in ProtectedRequired(req) : RefersTo(rsp.desired[k], t)

(* C27: the order of the requirement groups.  The map that                 *)
(* ProtectRequiredResources returns - keys, Usages and their reasons - is  *)
(* the same for every order in which the range over the groups can         *)
(* produce them.                                                           *)
C27_GroupOrderIndependence ==
    (pc \in {"set", "done"} /\ Len(groupOrder) = Cardinality(DOMAIN req.requiredResources))
        => \A order \in RangeOrders(DOMAIN req.requiredResources) :
              ProtectRequiredResources(req.requiredResources, order)
                  = ProtectRequiredResources(req.requiredResources, groupOrder)

\* the keys the composed pass stored that the request did not have
InsertedKeys ==
    {k \o UsageKeySuffix : k \in Range(visitOrder)} \ DOMAIN req.desiredComposed

(* C28: no guard of a guard.  An entry the loop stored into desiredComposed *)
(* is not processed as a composed resource in the same invocation: under   *)
(* the key of a stored entry followed by "-usage" there is no Usage, and   *)
(* protectedCount has counted the entries of the request only.             *)
C28_NoGuardOfGuard ==
    pc \in {"composed", "composite"} =>
        /\ \A k \in InsertedKeys :
               k \in DOMAIN desiredComposed => k \o UsageKeySuffix \notin DOMAIN desiredComposed
        /\ protectedCount <= Cardinality(DOMAIN req.desiredComposed)

(* C29: a Usage has a target.  Every Usage of the returned set names a     *)
(* resource: the kind and the resourceRef name in spec.of are not empty,   *)
(* also for the Usage of a composite that is labelled in the desired state *)
(* and has no observed state.                                              *)
C29_GuardHasTarget ==
    Returned =>
        \A k \in DOMAIN rsp.desired :
            IsGuard(rsp.desired[k])
                => /\ rsp.desired[k].spec.of.kind # EmptyString
                   /\ rsp.desired[k].spec.of.resourceRef.name # EmptyString

\* metadata.name and metadata.namespace of the Usage a call returned
UsageIdentity(c) == <<c.usage.metadata.name, GetNamespace(c.usage)>>

(* C30: the identity of a Usage, as claimed.  Two Usages generated for     *)
(* targets that differ in kind, name or namespace do not have the same     *)
(* metadata.name together with the same metadata.namespace, in the v1 and  *)
(* in the v2 schema.                                                       *)
C30_Injective ==
    \A i, j \in 1..Len(synth) :
        TargetIdentity(synth[i].u) # TargetIdentity(synth[j].u)
            => UsageIdentity(synth[i]) # UsageIdentity(synth[j])

\* the namespace a Usage is created in: that of its target for the v2
\* schema, none for the v1 schema
UsageScope(c) ==
    IF c.usage.apiVersion = ProtectionV1GroupVersion THEN EmptyString ELSE GetNamespace(c.u)

(* C30 amended: two Usages have the same metadata.name and the same        *)
(* metadata.namespace exactly when their targets have the same lower-cased *)
(* kind and name and the Usages the same scope: the namespace of the       *)
(* target for a v2 Usage, none for a v1 Usage.  v2 Usages of targets in    *)
(* different namespaces differ; v1 Usages of targets that differ in the    *)
(* namespace only are one and the same.                                    *)
C30_IdentityByScope ==
    \A i, j \in 1..Len(synth) :
        UsageIdentity(synth[i]) = UsageIdentity(synth[j])
            <=> /\ ToLower(GetKind(synth[i].u) \o Dash \o GetName(synth[i].u))
                       = ToLower(GetKind(synth[j].u) \o Dash \o GetName(synth[j].u))
                /\ UsageScope(synth[i]) = UsageScope(synth[j])

C30_Witness ==
    /\ Len(synth) = 2
    /\ synth[1].createV1Usages /\ synth[2].createV1Usages
    /\ synth[1].usage.apiVersion = ProtectionV1GroupVersion
    /\ synth[2].usage.apiVersion = ProtectionV1GroupVersion
    /\ TargetIdentity(synth[1].u) = <<KindK, EmptyString, NameA>>
    /\ TargetIdentity(synth[2].u) = <<KindK, NamespaceN, NameA>>
    /\ UsageIdentity(synth[1]) = UsageIdentity(synth[2])
====
